---- MODULE Spec2Model ----
(***************************************************************************)
(* The ranking-line parser of fantasy-rankings-visualizer                  *)
(* (src/services/geminiService.ts): both versions of                       *)
(* parseRankingsFromText, the basic one (lines 36-89) and the team-aware   *)
(* one (lines 136-201), with their helpers extractPositionAndRank and      *)
(* isTeam; and the handlers of the App and TeamManager components of the   *)
(* same file: handleSubmitRankings, handleToggleFavorite, handleCreateTeam, *)
(* handleDeleteTeam and handleToggleTeam.                                  *)
(*                                                                         *)
(* The state and the records hold strings; the operators work on the       *)
(* sequence of a string's characters (Chars), each a one-character string, *)
(* so that trimming, splitting, prefix tests and case folding are computed *)
(* character by character as the code does.                                *)
(* An optional field (positionalRank, team) is <<>> when undefined and     *)
(* <<v>> when it holds v.                                                  *)
(***************************************************************************)
EXTENDS Integers, Sequences, FiniteSets, TLC

(* The characters of a string literal. *)
Chars(s) == [k \in 1..Len(s) |-> SubSeq(s, k, k)]

(* The string of a sequence of characters. *)
RECURSIVE Str(_)
Str(cs) == IF cs = <<>> THEN "" ELSE Head(cs) \o Str(Tail(cs))

(***************************************************************************)
(* JavaScript built-ins used by the parser.                                *)
(***************************************************************************)

(* The ASCII characters matched by \s and removed by String.trim. *)
WhiteSpace == {" ", "\t", "\n", "\r"}

LowerCase == Chars("abcdefghijklmnopqrstuvwxyz")

UpperCase == Chars("ABCDEFGHIJKLMNOPQRSTUVWXYZ")

Digits == Chars("0123456789")

IsDigit(c) == \E k \in DOMAIN Digits : Digits[k] = c

DigitValue(c) == (CHOOSE k \in DOMAIN Digits : Digits[k] = c) - 1

IsUpper(c) == \E k \in DOMAIN UpperCase : UpperCase[k] = c

toUpperCaseChar(c) ==
  IF \E k \in DOMAIN LowerCase : LowerCase[k] = c
  THEN UpperCase[CHOOSE k \in DOMAIN LowerCase : LowerCase[k] = c]
  ELSE c

(* String.prototype.toUpperCase *)
toUpperCase(s) == [k \in 1..Len(s) |-> toUpperCaseChar(s[k])]

toLowerCaseChar(c) ==
  IF \E k \in DOMAIN UpperCase : UpperCase[k] = c
  THEN LowerCase[CHOOSE k \in DOMAIN UpperCase : UpperCase[k] = c]
  ELSE c

(* String.prototype.toLowerCase *)
toLowerCase(s) == [k \in 1..Len(s) |-> toLowerCaseChar(s[k])]

(* String.prototype.startsWith *)
startsWith(s, p) == Len(p) <= Len(s) /\ SubSeq(s, 1, Len(p)) = p

(* String.prototype.substring(n): the string from 0-based index n on. *)
substring(s, n) == SubSeq(s, n + 1, Len(s))

RECURSIVE StripLeadingWhite(_)
StripLeadingWhite(s) ==
  IF s # <<>> /\ Head(s) \in WhiteSpace THEN StripLeadingWhite(Tail(s)) ELSE s

RECURSIVE StripTrailingWhite(_)
StripTrailingWhite(s) ==
  IF s # <<>> /\ s[Len(s)] \in WhiteSpace
  THEN StripTrailingWhite(SubSeq(s, 1, Len(s) - 1))
  ELSE s

(* String.prototype.trim *)
trim(s) == StripTrailingWhite(StripLeadingWhite(s))

RECURSIVE DigitPrefixLen(_)
DigitPrefixLen(s) ==
  IF s # <<>> /\ IsDigit(Head(s)) THEN 1 + DigitPrefixLen(Tail(s)) ELSE 0

RECURSIVE DecimalValue(_)
DecimalValue(d) ==
  IF d = <<>> THEN 0
  ELSE 10 * DecimalValue(SubSeq(d, 1, Len(d) - 1)) + DigitValue(d[Len(d)])

(* parseInt(s, 10): leading white space is skipped, one sign is accepted,  *)
(* then the longest run of digits is read and whatever follows is ignored; *)
(* NaN when there is no digit.                                             *)
parseInt(s) ==
  LET t == StripLeadingWhite(s)
      signed == t # <<>> /\ Head(t) \in {"-", "+"}
      u == IF signed THEN Tail(t) ELSE t
      n == DigitPrefixLen(u)
      v == DecimalValue(SubSeq(u, 1, n))
  IN IF n = 0 THEN [nan |-> TRUE, val |-> 0]
     ELSE [nan |-> FALSE, val |-> IF Head(t) = "-" THEN 0 - v ELSE v]

(* String.prototype.split(c) for a one-character separator c. *)
RECURSIVE split(_, _)
split(s, c) ==
  IF \A k \in 1..Len(s) : s[k] # c THEN <<s>>
  ELSE LET k == CHOOSE k \in 1..Len(s) : s[k] = c /\ \A j \in 1..(k - 1) : s[j] # c
       IN <<SubSeq(s, 1, k - 1)>> \o split(SubSeq(s, k + 1, Len(s)), c)

(* String.prototype.split(/\s+/) *)
RECURSIVE splitWhiteSpace(_)
splitWhiteSpace(s) ==
  IF \A k \in 1..Len(s) : s[k] \notin WhiteSpace THEN <<s>>
  ELSE LET k == CHOOSE k \in 1..Len(s) :
                  s[k] \in WhiteSpace /\ \A j \in 1..(k - 1) : s[j] \notin WhiteSpace
       IN <<SubSeq(s, 1, k - 1)>>
            \o splitWhiteSpace(StripLeadingWhite(SubSeq(s, k, Len(s))))

(* Array.prototype.join(' ') *)
RECURSIVE join(_)
join(parts) ==
  IF parts = <<>> THEN <<>>
  ELSE IF Len(parts) = 1 THEN parts[1]
  ELSE parts[1] \o <<" ">> \o join(Tail(parts))

(* Array.prototype.slice(from, to), 0-based, to exclusive. *)
slice(a, from, to) == SubSeq(a, from + 1, to)

(* The characters used here, in the order of their UTF-16 code units. *)
CodeUnits ==
  Chars("\t\n\r #)+-.0123456789@ABCDEFGHIJKLMNOPQRSTUVWXYZabcdefghijklmnopqrstuvwxyz")

CodeUnit(c) == CHOOSE k \in DOMAIN CodeUnits : CodeUnits[k] = c

(* a < b for two strings, compared code unit by code unit. *)
RECURSIVE Precedes(_, _)
Precedes(a, b) ==
  IF b = <<>> THEN FALSE
  ELSE IF a = <<>> THEN TRUE
  ELSE IF Head(a) = Head(b) THEN Precedes(Tail(a), Tail(b))
  ELSE CodeUnit(Head(a)) < CodeUnit(Head(b))

(* Array.prototype.sort() of an array of strings, no comparator given. *)
RECURSIVE sort(_)
sort(a) ==
  IF a = <<>> THEN <<>>
  ELSE LET x == Head(a)
           r == sort(Tail(a))
       IN SelectSeq(r, LAMBDA y : Precedes(Chars(y), Chars(x)))
            \o <<x>>
            \o SelectSeq(r, LAMBDA y : ~Precedes(Chars(y), Chars(x)))

(* Array.prototype.includes *)
includes(a, x) == \E k \in DOMAIN a : a[k] = x

(* Array.from(new Set(a)): the elements of a, each at its first place. *)
RECURSIVE arrayFromSet(_)
arrayFromSet(a) ==
  IF a = <<>> THEN <<>>
  ELSE LET front == arrayFromSet(SubSeq(a, 1, Len(a) - 1))
       IN IF includes(front, a[Len(a)]) THEN front ELSE Append(front, a[Len(a)])

(* The updater of handleToggleFavorite and handleToggleTeam: a Set of prev *)
(* with x deleted when it has it and added when not, as an array.          *)
toggled(prev, x) ==
  LET newSet == arrayFromSet(prev)
  IN IF includes(newSet, x)
     THEN SelectSeq(newSet, LAMBDA y : y # x)
     ELSE Append(newSet, x)

(***************************************************************************)
(* The parser's helpers.                                                   *)
(***************************************************************************)

BASE_POSITIONS == <<"QB", "RB", "WR", "TE", "K", "DST", "DEF">>

TEAM_COLORS ==
  <<"#0ea5e9", "#10b981", "#f43f5e", "#f59e0b", "#8b5cf6", "#84cc16", "#ec4899",
    "#14b8a6">>

(* extractPositionAndRank's null. *)
NoPosition == [match |-> FALSE, base |-> "", rank |-> <<>>]

(* /^\d*$/.test(rest) *)
AllDigits(rest) == \A k \in 1..Len(rest) : IsDigit(rest[k])

(* PositionResult without the normalization of DEF. *)
PositionResultAsMatched(pos, rest) ==
  [match |-> TRUE,
   base |-> pos,
   rank |-> LET r == parseInt(rest) IN IF r.nan THEN <<>> ELSE <<r.val>>]

(* The value extractPositionAndRank returns for base position pos. *)
PositionResult(pos, rest) ==
  [match |-> TRUE,
   base |-> IF pos = "DEF" THEN "DST" ELSE pos,
   rank |-> LET r == parseInt(rest) IN IF r.nan THEN <<>> ELSE <<r.val>>]

(* The loop over BASE_POSITIONS, from its k-th element on. *)
RECURSIVE ExtractFrom(_, _)
ExtractFrom(upperPart, k) ==
  IF k > Len(BASE_POSITIONS) THEN NoPosition
  ELSE LET pos == Chars(BASE_POSITIONS[k])
       IN IF startsWith(upperPart, pos) /\ AllDigits(substring(upperPart, Len(pos)))
          THEN PositionResult(BASE_POSITIONS[k], substring(upperPart, Len(pos)))
          ELSE ExtractFrom(upperPart, k + 1)

extractPositionAndRank(part) ==
  IF part = <<>> THEN NoPosition ELSE ExtractFrom(toUpperCase(part), 1)

(* /^[A-Z]{2,3}$/.test(part) *)
isTeam(part) ==
  /\ part # <<>>
  /\ Len(part) \in {2, 3}
  /\ \A k \in 1..Len(part) : IsUpper(part[k])

(***************************************************************************)
(* The steps of one iteration of the loop over the lines.                  *)
(***************************************************************************)

(* text.split('\n').filter(line => line.trim() !== '') *)
nonBlankLines(text) ==
  LET all == split(Chars(text), "\n")
      kept == SelectSeq(all, LAMBDA line : trim(line) # <<>>)
  IN [k \in 1..Len(kept) |-> Str(kept[k])]

(* A match of / vs | @ / starting at index k of s. *)
MatchupAt(s, k) ==
  \/ k + 3 <= Len(s) /\ SubSeq(s, k, k + 3) = Chars(" vs ")
  \/ k + 2 <= Len(s) /\ SubSeq(s, k, k + 2) = Chars(" @ ")

(* stripMatchup with the pattern / vs /: " @ " is not a separator. *)
stripMatchupVsOnly(line) ==
  LET at(k) == k + 3 <= Len(line) /\ SubSeq(line, k, k + 3) = Chars(" vs ")
  IN IF \E k \in 1..Len(line) : at(k)
     THEN LET k == CHOOSE k \in 1..Len(line) : at(k) /\ \A j \in 1..(k - 1) : ~at(j)
          IN SubSeq(line, 1, k - 1)
     ELSE line

(* line.split(/ vs | @ /)[0]: the text before the first match. *)
stripMatchup(line) ==
  IF \E k \in 1..Len(line) : MatchupAt(line, k)
  THEN LET k == CHOOSE k \in 1..Len(line) :
                  MatchupAt(line, k) /\ \A j \in 1..(k - 1) : ~MatchupAt(line, j)
       IN SubSeq(line, 1, k - 1)
  ELSE line

(* line.replace(/\t/g, ' ') *)
replaceTabs(line) == [k \in 1..Len(line) |-> IF line[k] = "\t" THEN " " ELSE line[k]]

(* parts[0].replace(/[.\)]$/, '') *)
stripRankSuffix(part) ==
  IF part # <<>> /\ part[Len(part)] \in {".", ")"}
  THEN SubSeq(part, 1, Len(part) - 1)
  ELSE part

(* The parts of a line as the basic version computes them. *)
basicParts(line) == splitWhiteSpace(trim(stripMatchup(line)))

(* teamParts with the two steps exchanged: the matchup is stripped from    *)
(* the line as written, and tabs are replaced by spaces afterwards.        *)
teamPartsStrippingFirst(line) == splitWhiteSpace(trim(replaceTabs(stripMatchup(line))))

(* The parts of a line as the team-aware version computes them. *)
teamParts(line) == splitWhiteSpace(trim(stripMatchup(replaceTabs(line))))

(* findPositionPartIndex scanning from the left-most part: the 0-based     *)
(* index of the first part that extractPositionAndRank accepts.            *)
findPositionPartIndexFromLeft(potentialNameParts) ==
  LET hits == {k \in 1..Len(potentialNameParts) :
                 extractPositionAndRank(potentialNameParts[k]).match}
  IN IF hits = {} THEN 0 - 1
     ELSE (CHOOSE k \in hits : \A j \in hits : k <= j) - 1

(* The basic version's scan from the right-most part: the 0-based index of *)
(* the last part that extractPositionAndRank accepts, -1 when none does.   *)
findPositionPartIndex(potentialNameParts) ==
  LET hits == {k \in 1..Len(potentialNameParts) :
                 extractPositionAndRank(potentialNameParts[k]).match}
  IN IF hits = {} THEN 0 - 1
     ELSE (CHOOSE k \in hits : \A j \in hits : j <= k) - 1

(* basicResolve with the name running through the position part. *)
basicResolveNameThroughPosition(rank, potentialNameParts) ==
  LET positionPartIndex == findPositionPartIndex(potentialNameParts)
  IN IF positionPartIndex < 0 THEN <<>>
     ELSE LET positionInfo == extractPositionAndRank(potentialNameParts[positionPartIndex + 1])
              name == join(slice(potentialNameParts, 0, positionPartIndex + 1))
          IN IF name = <<>> THEN <<>>
             ELSE <<[rank |-> rank,
                     name |-> Str(name),
                     position |-> positionInfo.base,
                     positionalRank |-> positionInfo.rank,
                     team |-> <<>>]>>

(* The basic version's record for the parts after the rank, if any. *)
basicResolve(rank, potentialNameParts) ==
  LET positionPartIndex == findPositionPartIndex(potentialNameParts)
  IN IF positionPartIndex < 0 THEN <<>>
     ELSE LET positionInfo == extractPositionAndRank(potentialNameParts[positionPartIndex + 1])
              name == join(slice(potentialNameParts, 0, positionPartIndex))
          IN IF name = <<>> THEN <<>>
             ELSE <<[rank |-> rank,
                     name |-> Str(name),
                     position |-> positionInfo.base,
                     positionalRank |-> positionInfo.rank,
                     team |-> <<>>]>>

(* The body of the basic version's loop: the records line adds to players. *)
basicLine(line) ==
  LET parts == basicParts(line)
  IN IF Len(parts) < 2 THEN <<>>
     ELSE LET rank == parseInt(stripRankSuffix(parts[1]))
          IN IF rank.nan THEN <<>>
             ELSE basicResolve(rank.val, slice(parts, 1, Len(parts)))

(* teamResolve that, when the last part is a team and the part before it   *)
(* is no position, takes the position from the part before that one.       *)
teamResolveLookingFurther(potentialNameParts) ==
  LET n == Len(potentialNameParts)
      p1 == potentialNameParts[n]
      p2 == IF n > 1 THEN potentialNameParts[n - 1] ELSE <<>>
      p3 == IF n > 2 THEN potentialNameParts[n - 2] ELSE <<>>
      p1_pos == extractPositionAndRank(p1)
      p2_pos == IF p2 # <<>> THEN extractPositionAndRank(p2) ELSE NoPosition
      p3_pos == IF p3 # <<>> THEN extractPositionAndRank(p3) ELSE NoPosition
      p2_team == p2 # <<>> /\ isTeam(p2)
  IN IF p1_pos.match
     THEN [positionInfo |-> p1_pos,
           teamInfo |-> IF p2_team THEN <<Str(toUpperCase(p2))>> ELSE <<>>,
           nameEndIndex |-> IF p2_team THEN n - 2 ELSE n - 1]
     ELSE IF isTeam(p1)
     THEN [positionInfo |-> IF p2_pos.match THEN p2_pos ELSE p3_pos,
           teamInfo |-> <<Str(toUpperCase(p1))>>,
           nameEndIndex |-> IF p2_pos.match THEN n - 2
                            ELSE IF p3_pos.match THEN n - 3 ELSE n]
     ELSE [positionInfo |-> NoPosition, teamInfo |-> <<>>, nameEndIndex |-> n]

(* teamResolve with the name ending one part early, not two, when the     *)
(* position is followed by the team.                                       *)
teamResolveShortCut(potentialNameParts) ==
  LET n == Len(potentialNameParts)
      p1 == potentialNameParts[n]
      p2 == IF n > 1 THEN potentialNameParts[n - 1] ELSE <<>>
      p1_pos == extractPositionAndRank(p1)
      p2_pos == IF p2 # <<>> THEN extractPositionAndRank(p2) ELSE NoPosition
      p2_team == p2 # <<>> /\ isTeam(p2)
  IN IF p1_pos.match
     THEN [positionInfo |-> p1_pos,
           teamInfo |-> IF p2_team THEN <<Str(toUpperCase(p2))>> ELSE <<>>,
           nameEndIndex |-> IF p2_team THEN n - 2 ELSE n - 1]
     ELSE IF isTeam(p1)
     THEN [positionInfo |-> p2_pos,
           teamInfo |-> <<Str(toUpperCase(p1))>>,
           nameEndIndex |-> IF p2_pos.match THEN n - 1 ELSE n]
     ELSE [positionInfo |-> NoPosition, teamInfo |-> <<>>, nameEndIndex |-> n]

(* The team-aware version's look at the last two parts: positionInfo,      *)
(* teamInfo and nameEndIndex as they stand before the final test.          *)
teamResolve(potentialNameParts) ==
  LET n == Len(potentialNameParts)
      p1 == potentialNameParts[n]
      p2 == IF n > 1 THEN potentialNameParts[n - 1] ELSE <<>>
      p1_pos == extractPositionAndRank(p1)
      p1_team == isTeam(p1)
      p2_pos == IF p2 # <<>> THEN extractPositionAndRank(p2) ELSE NoPosition
      p2_team == p2 # <<>> /\ isTeam(p2)
  IN IF p1_pos.match
     THEN [positionInfo |-> p1_pos,
           teamInfo |-> IF p2_team THEN <<Str(toUpperCase(p2))>> ELSE <<>>,
           nameEndIndex |-> IF p2_team THEN n - 2 ELSE n - 1]
     ELSE IF p1_team
     THEN [positionInfo |-> p2_pos,
           teamInfo |-> <<Str(toUpperCase(p1))>>,
           nameEndIndex |-> IF p2_pos.match THEN n - 2 ELSE n]
     ELSE [positionInfo |-> NoPosition, teamInfo |-> <<>>, nameEndIndex |-> n]

(* teamPush without the test nameEndIndex > 0. *)
teamPushAnyName(rank, potentialNameParts, r) ==
  IF r.positionInfo.match
  THEN <<[rank |-> rank,
          name |-> Str(join(slice(potentialNameParts, 0, r.nameEndIndex))),
          position |-> r.positionInfo.base,
          positionalRank |-> r.positionInfo.rank,
          team |-> r.teamInfo]>>
  ELSE <<>>

(* The team-aware version's final test and push. *)
teamPush(rank, potentialNameParts, r) ==
  IF r.positionInfo.match /\ r.nameEndIndex > 0
  THEN <<[rank |-> rank,
          name |-> Str(join(slice(potentialNameParts, 0, r.nameEndIndex))),
          position |-> r.positionInfo.base,
          positionalRank |-> r.positionInfo.rank,
          team |-> r.teamInfo]>>
  ELSE <<>>

(* The body of the team-aware version's loop.  parts has two elements or   *)
(* more where potentialNameParts is taken, so the test                     *)
(* potentialNameParts.length === 0 never succeeds.                         *)
teamLine(line) ==
  LET parts == teamParts(line)
  IN IF Len(parts) < 2 THEN <<>>
     ELSE LET rank == parseInt(stripRankSuffix(parts[1]))
              potentialNameParts == slice(parts, 1, Len(parts))
          IN IF rank.nan THEN <<>>
             ELSE teamPush(rank.val, potentialNameParts, teamResolve(potentialNameParts))

(* The loop body of the version named by v. *)
processLine(v, line) ==
  IF v = "basic" THEN basicLine(Chars(line)) ELSE teamLine(Chars(line))

(***************************************************************************)
(* The two functions as functions: text to the players they resolve with.  *)
(***************************************************************************)

RECURSIVE collect(_, _)
collect(v, lines) ==
  IF lines = <<>> THEN <<>>
  ELSE processLine(v, Head(lines)) \o collect(v, Tail(lines))

(* parseRankingsFromText, basic version *)
parseRankingsFromTextBasic(text) == collect("basic", nonBlankLines(text))

(* parseRankingsFromText, team-aware version *)
parseRankingsFromText(text) == collect("team", nonBlankLines(text))

parse(v, text) ==
  IF v = "basic" THEN parseRankingsFromTextBasic(text) ELSE parseRankingsFromText(text)

(***************************************************************************)
(* The input texts.                                                        *)
(***************************************************************************)

(* The most parts after the rank in a line of LayoutTexts. *)
MaxTokens == 4

(* The most parts after the rank in a line of SeparatorTexts. *)
MaxSepTokens == 4

(* The most lines in a text of LineTexts. *)
MaxLines == 3

(* The most lines in a text of SubmitTexts. *)
MaxSubmitLines == 2

(* The strings of toks with sep between them. *)
RECURSIVE Glue(_, _)
Glue(toks, sep) ==
  IF toks = <<>> THEN ""
  ELSE IF Len(toks) = 1 THEN toks[1]
  ELSE toks[1] \o sep \o Glue(Tail(toks), sep)

(* Each pair's separator followed by its token, in order. *)
RECURSIVE Weave(_)
Weave(pairs) ==
  IF pairs = <<>> THEN ""
  ELSE pairs[1][1] \o pairs[1][2] \o Weave(Tail(pairs))

SeqsUpTo(S, n) == UNION {[1..m -> S] : m \in 0..n}

(* One-line texts: a rank, then parts that are names, teams, positions,    *)
(* a matchup word, and a part (TE) that is both a position and team-like.  *)
LayoutVocabulary == {"Al", "Bo", "KC", "QB1", "def", "K", "vs", "TE"}

LayoutTexts == {Glue(<<"7">> \o toks, " ") : toks \in SeqsUpTo(LayoutVocabulary, MaxTokens)}

(* One-line texts whose first part varies. *)
RankTokens ==
  {"1", "12", "3.", "4)", "5.)", "0", "007", "-2", "+6", "1a", "1..", "8th",
   "x", ".", ")", "-", "QB", "#9"}

RankTexts == {r \o " " \o rest : r \in RankTokens, rest \in {"Al QB1", "Al KC k"}}

(* One-line texts whose parts are separated by spaces or tabs, with and    *)
(* without a trailing space, and that hold the matchup words.              *)
Separators == {" ", "\t"}

SeparatorVocabulary == {"Al", "QB", "vs", "@"}

SeparatorTexts ==
  {"1" \o Weave(pairs) \o trail :
     pairs \in SeqsUpTo(Separators \X SeparatorVocabulary, MaxSepTokens),
     trail \in {"", " "}}

(* One-line texts whose position part varies, with and without a team.     *)
PositionTokens ==
  {"QB", "qb", "Qb2", "QB0", "QB00", "QB12", "QB1x", "QBX", "Q", "RB3", "WR",
   "wr10", "TE1", "K", "K9", "k", "KC", "DST", "dst2", "DSTS", "DEF", "DEF1",
   "def", "Def07", "DEFX", "DE", "15", "WR-1"}

PositionTexts ==
  UNION {{"9 Al " \o p, "9 Al KC " \o p, "9 Al " \o p \o " KC"} : p \in PositionTokens}

(* Texts of several lines, blank and unparsable ones among them, whose     *)
(* ranks are not in ascending order.                                       *)
SampleLines ==
  {"2 Bo Jo RB2 KC", "1 Al QB", "oops", "", " \t", "3. Cy te1 vs KC", "4) Di KC K\r",
   "5 KC QB"}

LineTexts == {Glue(ls, "\n") : ls \in SeqsUpTo(SampleLines, MaxLines)}

Inputs == LayoutTexts \cup RankTexts \cup SeparatorTexts \cup PositionTexts \cup LineTexts

(***************************************************************************)
(* A call of parseRankingsFromText(text), of either version: the loop over *)
(* the lines, one iteration a step, then resolve(players).  No operation   *)
(* in the try block throws on a string, so the catch branch (reject) is    *)
(* never taken and is not an action.                                       *)
(***************************************************************************)

VARIABLES
  text,      \* the argument
  variant,   \* "basic" or "team": the version called, "" before the call
  lines,     \* the non-blank lines of text
  i,         \* the index in lines of the line the loop handles next
  players,   \* the records pushed so far
  pc,        \* "idle" before the call, "loop" in it, "resolved" after it
  appPlayers,       \* App's state players
  isLoading,        \* App's state isLoading
  error,            \* App's state error: <<>> when null, <<message>> otherwise
  favoriteNames,    \* App's state favoriteNames
  teams,            \* App's state teams
  activeTeamNames,  \* App's state activeTeamNames
  newTeamName       \* TeamManager's state newTeamName

vars == <<text, variant, lines, i, players, pc>>

(* The state of App that handleSubmitRankings sets. *)
appVars == <<appPlayers, isLoading, error>>

(* The state that TeamManager reads and sets. *)
teamVars == <<favoriteNames, teams, activeTeamNames, newTeamName>>

allVars == <<vars, appVars, teamVars>>

(* The initial values of the state of App and TeamManager. *)
AppInit ==
  /\ appPlayers = <<>>
  /\ isLoading = FALSE
  /\ error = <<>>

TeamManagerInit ==
  /\ favoriteNames = <<>>
  /\ teams = <<>>
  /\ activeTeamNames = <<>>
  /\ newTeamName = ""

Variants == {"basic", "team"}

Init ==
  /\ text \in Inputs
  /\ variant = ""
  /\ lines = <<>>
  /\ i = 0
  /\ players = <<>>
  /\ pc = "idle"
  /\ AppInit
  /\ TeamManagerInit

(* Entry: players = [], lines computed. *)
Call(v) ==
  /\ pc = "idle"
  /\ variant' = v
  /\ lines' = nonBlankLines(text)
  /\ i' = 1
  /\ players' = <<>>
  /\ pc' = "loop"
  /\ UNCHANGED <<text, appVars, teamVars>>

(* Iterate with break in the place of continue: a line that yields no      *)
(* record ends the loop.                                                   *)
IterateBreaking ==
  /\ pc = "loop"
  /\ i <= Len(lines)
  /\ players' = players \o processLine(variant, lines[i])
  /\ i' = IF processLine(variant, lines[i]) = <<>> THEN Len(lines) + 1 ELSE i + 1
  /\ UNCHANGED <<text, variant, lines, pc, appVars, teamVars>>

(* One iteration of for (const line of lines). *)
Iterate ==
  /\ pc = "loop"
  /\ i <= Len(lines)
  /\ players' = players \o processLine(variant, lines[i])
  /\ i' = i + 1
  /\ UNCHANGED <<text, variant, lines, pc, appVars, teamVars>>

(* resolve(players) *)
Resolve ==
  /\ pc = "loop"
  /\ i > Len(lines)
  /\ pc' = "resolved"
  /\ UNCHANGED <<text, variant, lines, i, players, appVars, teamVars>>

Next == (\E v \in Variants : Call(v)) \/ Iterate \/ Resolve

Spec == Init /\ [][Next]_vars

(***************************************************************************)
(* App.handleSubmitRankings(text).  The call sets the state, and calls     *)
(* parseRankingsFromText, whose body runs at once, as the executor of the  *)
(* promise it returns; the rest of the handler, after the await, runs when *)
(* that promise is settled.  No other handler runs in between: every step  *)
(* from the call to the end of the handler is in one turn of the event     *)
(* loop, microtasks included.                                              *)
(***************************************************************************)

(* The texts submitted: the form submits text.trim() when it is not empty, *)
(* the effect on mount submits rawText when its trim is not empty.         *)
SubmitTexts ==
  {t \in {Glue(ls, "\n") : ls \in SeqsUpTo(SampleLines, MaxSubmitLines)} :
     trim(Chars(t)) # <<>>}

SubmitInit ==
  /\ text = ""
  /\ variant = ""
  /\ lines = <<>>
  /\ i = 0
  /\ players = <<>>
  /\ pc = "idle"
  /\ AppInit
  /\ TeamManagerInit

(* The handler up to the await, the entry of parseRankingsFromText         *)
(* included.                                                               *)
handleSubmitRankings(t) ==
  /\ pc = "idle"
  /\ isLoading' = TRUE
  /\ error' = <<>>
  /\ appPlayers' = <<>>
  /\ text' = t
  /\ variant' = "team"
  /\ lines' = nonBlankLines(t)
  /\ i' = 1
  /\ players' = <<>>
  /\ pc' = "loop"
  /\ UNCHANGED teamVars

(* handleSubmitRankingsSettled without the finally block. *)
handleSubmitRankingsSettledWithoutFinally ==
  /\ pc \in {"resolved", "rejected"}
  /\ IF pc = "resolved"
     THEN appPlayers' = players /\ UNCHANGED error
     ELSE /\ error' = <<"Failed to parse rankings from text. Please check the format.">>
          /\ UNCHANGED appPlayers
  /\ pc' = "idle"
  /\ UNCHANGED <<isLoading, text, variant, lines, i, players, teamVars>>

(* The handler after the await: setPlayers(rankings) when the promise is   *)
(* fulfilled, setError(e.message) when it is rejected (the catch branch of *)
(* parseRankingsFromText, which no string makes it take), and              *)
(* setIsLoading(false) in either case.                                     *)
handleSubmitRankingsSettled ==
  /\ pc \in {"resolved", "rejected"}
  /\ IF pc = "resolved"
     THEN appPlayers' = players /\ UNCHANGED error
     ELSE /\ error' = <<"Failed to parse rankings from text. Please check the format.">>
          /\ UNCHANGED appPlayers
  /\ isLoading' = FALSE
  /\ pc' = "idle"
  /\ UNCHANGED <<text, variant, lines, i, players, teamVars>>

SubmitNext ==
  \/ \E t \in SubmitTexts : handleSubmitRankings(t)
  \/ Iterate
  \/ Resolve
  \/ handleSubmitRankingsSettled

(* The loop goes on to its next line: of the steps of SubmitNext, those of *)
(* Iterate.                                                                *)
LoopAdvances == pc = "loop" /\ i <= Len(lines) /\ i' = i + 1

(* The code of a call runs on: the loop runs to its end, the promise is    *)
(* resolved, and the settled promise resumes the handler.                  *)
SubmitSpec ==
  /\ SubmitInit
  /\ [][SubmitNext]_allVars
  /\ WF_i(LoopAdvances)
  /\ WF_allVars(Resolve)
  /\ WF_allVars(handleSubmitRankingsSettled)

(***************************************************************************)
(* TeamManager, in an App that shows the players of RosterText: no         *)
(* favorites, no teams and no active teams to begin with.                  *)
(***************************************************************************)

RosterText == "2 Bo Jo RB2 KC\n1 Al QB"

(* What is typed into the team name field. *)
TeamNameInputs == {"Aa", " aA ", "B", " "}

(* The state after handleSubmitRankings(RosterText) has finished. *)
TeamInit ==
  /\ text = RosterText
  /\ variant = "team"
  /\ lines = nonBlankLines(RosterText)
  /\ i = Len(nonBlankLines(RosterText)) + 1
  /\ players = parseRankingsFromText(RosterText)
  /\ pc = "idle"
  /\ appPlayers = parseRankingsFromText(RosterText)
  /\ isLoading = FALSE
  /\ error = <<>>
  /\ TeamManagerInit

(* The star button of a row of the table. *)
handleToggleFavorite(playerName) ==
  /\ favoriteNames' = toggled(favoriteNames, playerName)
  /\ UNCHANGED <<teams, activeTeamNames, newTeamName, vars, appVars>>

(* onChange of the team name field, disabled while there is no favorite. *)
setNewTeamName(value) ==
  /\ Len(favoriteNames) # 0
  /\ newTeamName' = value
  /\ UNCHANGED <<favoriteNames, teams, activeTeamNames, vars, appVars>>

handleCreateTeam ==
  LET trimmedName == trim(Chars(newTeamName))
  IN IF \/ Len(favoriteNames) = 0
        \/ trimmedName = <<>>
        \/ \E k \in DOMAIN teams :
             toLowerCase(Chars(teams[k].name)) = toLowerCase(trimmedName)
     THEN UNCHANGED allVars
     ELSE /\ teams' = Append(teams,
                             [name |-> Str(trimmedName),
                              players |-> sort(favoriteNames),
                              color |-> TEAM_COLORS[(Len(teams) % Len(TEAM_COLORS)) + 1]])
          /\ newTeamName' = ""
          /\ favoriteNames' = <<>>
          /\ UNCHANGED <<activeTeamNames, vars, appVars>>

(* handleDeleteTeam without the update of activeTeamNames. *)
handleDeleteTeamKeepingActive(teamNameToDelete) ==
  /\ teams' = SelectSeq(teams, LAMBDA team : team.name # teamNameToDelete)
  /\ UNCHANGED <<activeTeamNames, favoriteNames, newTeamName, vars, appVars>>

handleDeleteTeam(teamNameToDelete) ==
  /\ teams' = SelectSeq(teams, LAMBDA team : team.name # teamNameToDelete)
  /\ activeTeamNames' = SelectSeq(activeTeamNames, LAMBDA name : name # teamNameToDelete)
  /\ UNCHANGED <<favoriteNames, newTeamName, vars, appVars>>

handleToggleTeam(teamName) ==
  /\ activeTeamNames' = toggled(activeTeamNames, teamName)
  /\ UNCHANGED <<favoriteNames, teams, newTeamName, vars, appVars>>

(* The buttons are those of the rows shown: a star for each player, a      *)
(* toggle and a delete button for each team listed.                        *)
TeamNext ==
  \/ \E k \in DOMAIN appPlayers : handleToggleFavorite(appPlayers[k].name)
  \/ \E value \in TeamNameInputs : setNewTeamName(value)
  \/ handleCreateTeam
  \/ \E k \in DOMAIN teams : handleDeleteTeam(teams[k].name)
  \/ \E k \in DOMAIN teams : handleToggleTeam(teams[k].name)

TeamSpec == TeamInit /\ [][TeamNext]_allVars

(***************************************************************************)
(* Vocabulary of the properties.                                           *)
(***************************************************************************)

(* The step is an iteration of the loop, on lines[i]. *)
Iterating == pc = "loop" /\ i <= Len(lines)

(* The step pushes a record. *)
Pushing == Iterating /\ Len(players') = Len(players) + 1

(* The record the step pushes. *)
Pushed == players'[Len(players')]

(* The lines of a text, blank ones included. *)
RawLines(t) == LET all == split(Chars(t), "\n") IN [k \in 1..Len(all) |-> Str(all[k])]

(* The white-space separated words of a line, none when it is blank. *)
Words(line) ==
  LET t == trim(Chars(line)) IN IF t = <<>> THEN <<>> ELSE splitWhiteSpace(t)

(* An integer numeral: digits, after at most one sign. *)
IsIntegerNumeral(cs) ==
  LET body == IF cs # <<>> /\ Head(cs) \in {"-", "+"} THEN Tail(cs) ELSE cs
  IN body # <<>> /\ AllDigits(body)

(* What each line yields when it is the whole text, one after the other. *)
RECURSIVE EachAlone(_, _)
EachAlone(v, ls) ==
  IF ls = <<>> THEN <<>> ELSE parse(v, Head(ls)) \o EachAlone(v, Tail(ls))

(***************************************************************************)
(* C1: every record pushed has a rank of at least 1.                       *)
(* The code pushes rank 0 for "0 Al QB1" and rank -2 for "-2 Al QB1".      *)
(***************************************************************************)
C1_RankPositive == \A k \in DOMAIN players : players[k].rank >= 1

(***************************************************************************)
(* C2: a line whose first word, with at most one trailing "." or ")"       *)
(* removed, is not an integer numeral pushes no record.                    *)
(* The code pushes a record for "1a Al QB1" and "8th Al QB1": parseInt     *)
(* reads the leading digits and ignores the rest.                          *)
(***************************************************************************)
C2_SkipNonNumeric ==
  [][(Iterating /\ ~IsIntegerNumeral(stripRankSuffix(Words(lines[i])[1])))
       => players' = players]_vars

(***************************************************************************)
(* C3: the records pushed so far are, in line order, what each line        *)
(* handled so far yields when parsed alone (at most one record each), and  *)
(* the resolved value is that of all the lines of the text, blank and      *)
(* unparsable ones contributing nothing.                                   *)
(***************************************************************************)
C3_LinesIndependentInOrder ==
  /\ pc \in {"loop", "resolved"} =>
       /\ players = EachAlone(variant, SubSeq(lines, 1, i - 1))
       /\ \A k \in DOMAIN lines : Len(parse(variant, lines[k])) <= 1
  /\ pc = "resolved" => players = EachAlone(variant, RawLines(text))

(* Resolved: three non-blank lines, the middle one yielding nothing, the   *)
(* two records in line order with the larger rank first.                   *)
C3_Witness ==
  /\ pc = "resolved"
  /\ Len(lines) = 3
  /\ parse(variant, lines[2]) = <<>>
  /\ Len(players) = 2
  /\ players[1].rank > players[2].rank

(***************************************************************************)
(* Vocabulary of the layout properties: a line of words separated by       *)
(* single spaces, "r N T P" or "r N P T".                                  *)
(***************************************************************************)

SpaceWords(line) == split(Chars(line), " ")

IsPlainWord(w) == w # <<>> /\ \A k \in 1..Len(w) : w[k] \notin WhiteSpace

(* A rank token: digits, then at most one "." or ")". *)
IsRankToken(w) == LET d == stripRankSuffix(w) IN d # <<>> /\ AllDigits(d)

IsPositionToken(w) == extractPositionAndRank(w).match

(* A team token that is not itself a position token. *)
IsPureTeamToken(w) == isTeam(w) /\ ~IsPositionToken(w)

IsMatchupWord(w) == w = Chars("vs") \/ w = Chars("@")

(* line is "r N T P" (order "TP") or "r N P T" (order "PT"), N not empty. *)
HasLayout(line, order) ==
  LET w == SpaceWords(line)
      n == Len(w)
  IN /\ n >= 4
     /\ \A k \in 1..n : IsPlainWord(w[k])
     /\ IsRankToken(w[1])
     /\ IF order = "TP"
        THEN IsPureTeamToken(w[n - 1]) /\ IsPositionToken(w[n])
        ELSE IsPositionToken(w[n - 1]) /\ IsPureTeamToken(w[n])

LayoutOf(line) == IF HasLayout(line, "TP") THEN "TP" ELSE "PT"

(* The name tokens N of a line of either layout. *)
NameTokens(line) == LET w == SpaceWords(line) IN SubSeq(w, 2, Len(w) - 2)

(* The line with its last two words exchanged. *)
Swapped(line) ==
  LET w == SpaceWords(line)
      n == Len(w)
      x == SubSeq(w, 1, n - 2) \o <<w[n], w[n - 1]>>
  IN Glue([k \in 1..n |-> Str(x[k])], " ")

(* The record the claim gives a line of either layout. *)
LayoutRecord(line) ==
  LET w == SpaceWords(line)
      n == Len(w)
      N == NameTokens(line)
      T == IF LayoutOf(line) = "TP" THEN w[n - 1] ELSE w[n]
      P == IF LayoutOf(line) = "TP" THEN w[n] ELSE w[n - 1]
  IN [rank |-> DecimalValue(stripRankSuffix(w[1])),
      name |-> Glue([k \in 1..Len(N) |-> Str(N[k])], " "),
      position |-> extractPositionAndRank(P).base,
      positionalRank |-> extractPositionAndRank(P).rank,
      team |-> <<Str(T)>>]

(* The team-aware call has resolved on a one-line text of either layout. *)
LayoutResolved ==
  /\ pc = "resolved"
  /\ variant = "team"
  /\ HasLayout(text, "TP") \/ HasLayout(text, "PT")

(***************************************************************************)
(* C4 as claimed: for every rank token r, non-empty sequence of name       *)
(* tokens N, position token P and team token T that is not a position      *)
(* token, "r N T P" and "r N P T" yield the same record, of name N joined  *)
(* by single spaces, team T, position and positionalRank from P.           *)
(* Violated when a name token is "vs" or "@": "7 Al vs KC QB1" is cut at   *)
(* " vs " and yields nothing.                                              *)
(***************************************************************************)
C4_LayoutsAgreeAsClaimed ==
  LayoutResolved =>
    /\ players = <<LayoutRecord(text)>>
    /\ parseRankingsFromText(Swapped(text)) = players

(***************************************************************************)
(* C4, amended: the same, for name tokens none of which is the matchup     *)
(* word "vs" or "@".                                                       *)
(***************************************************************************)
C4_LayoutsAgree ==
  (LayoutResolved /\ \A k \in DOMAIN NameTokens(text) : ~IsMatchupWord(NameTokens(text)[k])) =>
    /\ players = <<LayoutRecord(text)>>
    /\ parseRankingsFromText(Swapped(text)) = players

(* Resolved on "r N P T" with two name tokens and a positional rank: one   *)
(* record, with the team, as for "r N T P".                                *)
C4_Witness ==
  /\ LayoutResolved
  /\ HasLayout(text, "PT")
  /\ Len(NameTokens(text)) = 2
  /\ Len(players) = 1
  /\ players[1].team # <<>>
  /\ players[1].positionalRank # <<>>
  /\ parseRankingsFromText(Swapped(text)) = players

(***************************************************************************)
(* C5: in the team-aware version, a line whose last part is a team token   *)
(* but no position token, and whose second-to-last part is no position     *)
(* token or does not exist, pushes no record; nor does a line whose last   *)
(* part is neither a position token nor a team token.                      *)
(***************************************************************************)
TeamWithoutPosition(line) ==
  LET parts == teamParts(Chars(line))
      n == Len(parts)
  IN /\ isTeam(parts[n])
     /\ ~IsPositionToken(parts[n])
     /\ n < 2 \/ ~IsPositionToken(parts[n - 1])

NeitherPositionNorTeam(line) ==
  LET parts == teamParts(Chars(line))
      n == Len(parts)
  IN ~IsPositionToken(parts[n]) /\ ~isTeam(parts[n])

HasMatchup(cs) == \E k \in 1..Len(cs) : MatchupAt(cs, k)

(* The index of the first " vs " or " @ " of cs. *)
FirstMatchup(cs) ==
  CHOOSE k \in 1..Len(cs) : MatchupAt(cs, k) /\ \A j \in 1..(k - 1) : ~MatchupAt(cs, j)

(* The line up to, not including, its first " vs " or " @ ". *)
BeforeMatchup(line) == Str(SubSeq(Chars(line), 1, FirstMatchup(Chars(line)) - 1))

(* The same with the matchup found after tabs are read as spaces. *)
BeforeTabbedMatchup(line) ==
  Str(SubSeq(Chars(line), 1, FirstMatchup(replaceTabs(Chars(line))) - 1))

(***************************************************************************)
(* C6 as claimed: for every line that holds the literal " vs " or " @ ",   *)
(* what the line yields is what its prefix before the first such           *)
(* occurrence yields when parsed alone.                                    *)
(* Violated in the team-aware version, which replaces tabs by spaces       *)
(* before it looks for the matchup: "1 Al QB<tab>vs vs " is cut before     *)
(* the tab and yields Al, while its prefix "1 Al QB<tab>vs" yields nothing.*)
(***************************************************************************)
C6_MatchupStrippingAsClaimed ==
  [][(Iterating /\ HasMatchup(Chars(lines[i])))
       => players' = players \o parse(variant, BeforeMatchup(lines[i]))]_vars

(***************************************************************************)
(* C6, amended: the same, the occurrence being looked for, in the          *)
(* team-aware version, in the line with its tabs replaced by spaces (so    *)
(* that a "vs" or "@" between tabs counts too, and the first occurrence is *)
(* the first of either kind); in the basic version as claimed.             *)
(***************************************************************************)
C6_MatchupStripping ==
  [][/\ (Iterating /\ variant = "basic" /\ HasMatchup(Chars(lines[i])))
          => players' = players \o parse(variant, BeforeMatchup(lines[i]))
     /\ (Iterating /\ variant = "team" /\ HasMatchup(replaceTabs(Chars(lines[i]))))
          => players' = players \o parse(variant, BeforeTabbedMatchup(lines[i]))]_vars

(* The team-aware loop has handled a line with a record before a matchup   *)
(* set off by a tab and a literal one after it, and pushed the record.     *)
C6_Witness ==
  /\ pc = "loop"
  /\ variant = "team"
  /\ i = 2
  /\ HasMatchup(Chars(lines[1]))
  /\ FirstMatchup(replaceTabs(Chars(lines[1]))) < FirstMatchup(Chars(lines[1]))
  /\ Len(players) = 1
  /\ players = parse(variant, BeforeTabbedMatchup(lines[1]))

(***************************************************************************)
(* Vocabulary of the record properties: the parts of a line and the part   *)
(* its position comes from.                                                *)
(***************************************************************************)

PartsOf(v, line) == IF v = "basic" THEN basicParts(Chars(line)) ELSE teamParts(Chars(line))

(* The index in parts of the part that gives the position: in the basic    *)
(* version the right-most position token after the rank; in the team-aware *)
(* version the last part, or the second-to-last when the last is a team    *)
(* token and no position token.  0 when there is none.                     *)
PositionIndex(v, parts) ==
  LET n == Len(parts)
      hits == {k \in 2..n : IsPositionToken(parts[k])}
  IN IF v = "basic"
     THEN IF hits = {} THEN 0 ELSE CHOOSE k \in hits : \A j \in hits : j <= k
     ELSE IF n >= 2 /\ IsPositionToken(parts[n]) THEN n
     ELSE IF n >= 3 /\ isTeam(parts[n]) /\ IsPositionToken(parts[n - 1]) THEN n - 1
     ELSE 0

(* The index in parts of the cut point: the position part, or the team     *)
(* part when, in the team-aware version, it comes right before it.         *)
CutIndex(v, parts) ==
  LET p == PositionIndex(v, parts)
  IN IF v = "team" /\ p = Len(parts) /\ p >= 3 /\ isTeam(parts[p - 1]) THEN p - 1 ELSE p

(* The rank part parses. *)
RankParses(parts) == ~parseInt(stripRankSuffix(parts[1])).nan

(* The longest run of digits that ends cs. *)
RECURSIVE DigitSuffix(_)
DigitSuffix(cs) ==
  IF cs # <<>> /\ IsDigit(cs[Len(cs)])
  THEN DigitSuffix(SubSeq(cs, 1, Len(cs) - 1)) \o <<cs[Len(cs)]>>
  ELSE <<>>

(* DEF, or DEF and digits, in any letter case. *)
IsDefToken(cs) ==
  /\ Len(cs) >= 3
  /\ toUpperCase(SubSeq(cs, 1, 3)) = Chars("DEF")
  /\ AllDigits(SubSeq(cs, 4, Len(cs)))

CanonicalPositions == {"QB", "RB", "WR", "TE", "K", "DST"}

(***************************************************************************)
(* C7: every record pushed has a position among QB, RB, WR, TE, K, DST     *)
(* (so never DEF), and a record whose position part is DEF, or DEF and     *)
(* digits, in any letter case, has position DST.                           *)
(***************************************************************************)
C7_CanonicalPosition ==
  [][/\ \A k \in DOMAIN players' : players'[k].position \in CanonicalPositions
     /\ Pushing =>
          LET parts == PartsOf(variant, lines[i])
              p == PositionIndex(variant, parts)
          IN /\ p > 0
             /\ IsDefToken(parts[p]) => Pushed.position = "DST"]_vars

(* A record was pushed for a line whose position part is DEF and digits,   *)
(* not all in upper case, followed by a team.                              *)
C7_Witness ==
  /\ pc = "loop"
  /\ variant = "team"
  /\ i = 2
  /\ LET parts == PartsOf(variant, lines[1])
         p == PositionIndex(variant, parts)
     IN /\ p > 0
        /\ p < Len(parts)
        /\ IsDefToken(parts[p])
        /\ toUpperCase(parts[p]) # parts[p]
        /\ Len(parts[p]) > 3
  /\ Len(players) = 1
  /\ players[1].position = "DST"

(***************************************************************************)
(* C8: a record pushed has a positionalRank exactly when its position part *)
(* ends in digits, and then it is a positive integer, the value of those   *)
(* digits.                                                                 *)
(* The code pushes positionalRank 0 for "9 Al QB0": parseInt("0") is 0,    *)
(* not NaN.                                                                *)
(***************************************************************************)
C8_PositionalRank ==
  [][Pushing =>
       LET parts == PartsOf(variant, lines[i])
           suffix == DigitSuffix(parts[PositionIndex(variant, parts)])
       IN /\ Pushed.positionalRank # <<>> <=> suffix # <<>>
          /\ Pushed.positionalRank # <<>> =>
               /\ Pushed.positionalRank[1] >= 1
               /\ Pushed.positionalRank[1] = DecimalValue(suffix)]_vars

(***************************************************************************)
(* C9: a record pushed has a name that is not empty and is the parts       *)
(* between the rank and the cut point (the position part, or the team part *)
(* right before it), in order and as written, joined by single spaces; and *)
(* a line with a rank and a position but no part between the rank and the  *)
(* cut point pushes no record.                                             *)
(***************************************************************************)
C9_NameAssembly ==
  [][/\ Pushing =>
          LET parts == PartsOf(variant, lines[i])
              c == CutIndex(variant, parts)
          IN /\ Pushed.name # ""
             /\ c > 2
             /\ Pushed.name = Glue([k \in 1..(c - 2) |-> Str(parts[k + 1])], " ")
     /\ (/\ Iterating
         /\ Len(PartsOf(variant, lines[i])) >= 2
         /\ RankParses(PartsOf(variant, lines[i]))
         /\ CutIndex(variant, PartsOf(variant, lines[i])) = 2)
          => players' = players]_vars

(* The team-aware loop has handled a line of a rank, a team and a position *)
(* and nothing else, pushing nothing, and then a line with two name parts  *)
(* before a position and a team, pushing a record named by the two.        *)
C9_Witness ==
  /\ pc = "loop"
  /\ variant = "team"
  /\ i = 3
  /\ LET parts == PartsOf(variant, lines[1])
     IN /\ Len(parts) = 3
        /\ RankParses(parts)
        /\ isTeam(parts[2])
        /\ IsPositionToken(parts[3])
        /\ CutIndex(variant, parts) = 2
  /\ LET parts == PartsOf(variant, lines[2])
     IN /\ Len(parts) = 5
        /\ CutIndex(variant, parts) = 4
        /\ Len(players) = 1
        /\ players[1].name = Str(parts[2]) \o " " \o Str(parts[3])

(***************************************************************************)
(* Vocabulary of the comparison of the two versions.                       *)
(***************************************************************************)

(* The first " vs " or " @ " of the line, if any, is there as written: no  *)
(* "vs" or "@" set off by a tab comes before it.                           *)
FirstMatchupIsLiteral(line) ==
  LET cs == Chars(line)
      ts == replaceTabs(cs)
  IN HasMatchup(ts) => HasMatchup(cs) /\ FirstMatchup(cs) = FirstMatchup(ts)

(* What the team-aware version pushes for the line. *)
TeamAwareOn(line) == teamLine(Chars(line))

(* The position part the basic version found is the last part, with at     *)
(* least one part between the rank and a team part right before it; or it  *)
(* is the second-to-last part and the last part is a team token.           *)
PositionAtTheEnd(parts) ==
  LET n == Len(parts)
      p == PositionIndex("basic", parts)
  IN \/ p = n /\ (isTeam(parts[n - 1]) => n >= 4)
     \/ p = n - 1 /\ isTeam(parts[n])

(***************************************************************************)
(* C10 as claimed: for every line for which the basic version pushes a     *)
(* record, the team-aware version pushes a record with the same rank and   *)
(* position.                                                               *)
(* Violated: for "7 Al QB1 Bo" the basic version pushes Al, QB, and the    *)
(* team-aware version, which looks at the last two parts only, nothing.    *)
(***************************************************************************)
C10_TeamAwareSupersetAsClaimed ==
  [][(Pushing /\ variant = "basic") =>
       /\ TeamAwareOn(lines[i]) # <<>>
       /\ TeamAwareOn(lines[i])[1].rank = Pushed.rank
       /\ TeamAwareOn(lines[i])[1].position = Pushed.position]_vars

(***************************************************************************)
(* C10, amended: for every line for which the basic version pushes a       *)
(* record, and whose first " vs " or " @ ", if any, is not set off by a    *)
(* tab, the team-aware version pushes a record exactly when the position   *)
(* part the basic version found is the last part, or the second-to-last    *)
(* part followed by a team token, and a name part is left once a team      *)
(* token right before the position is set aside; the record it then pushes *)
(* has the same rank, position and positionalRank.                         *)
(***************************************************************************)
C10_TeamAwareAgreesAtTheEnd ==
  [][(Pushing /\ variant = "basic" /\ FirstMatchupIsLiteral(lines[i])) =>
       /\ TeamAwareOn(lines[i]) # <<>> <=> PositionAtTheEnd(PartsOf("basic", lines[i]))
       /\ TeamAwareOn(lines[i]) # <<>> =>
            /\ TeamAwareOn(lines[i])[1].rank = Pushed.rank
            /\ TeamAwareOn(lines[i])[1].position = Pushed.position
            /\ TeamAwareOn(lines[i])[1].positionalRank = Pushed.positionalRank]_vars

(* The basic loop has pushed a record for "r N T P"; the team-aware        *)
(* version pushes one too, with the team and a shorter name.               *)
C10_Witness ==
  /\ pc = "loop"
  /\ variant = "basic"
  /\ i = 2
  /\ Len(players) = 1
  /\ HasLayout(lines[1], "TP")
  /\ TeamAwareOn(lines[1]) # <<>>
  /\ TeamAwareOn(lines[1])[1].team # <<>>
  /\ TeamAwareOn(lines[1])[1].name # players[1].name
  /\ TeamAwareOn(lines[1])[1].position = players[1].position

(***************************************************************************)
(* Vocabulary of the order of the two steps of the team-aware version.     *)
(***************************************************************************)

(* What the team-aware resolution pushes for a line whose parts are parts: *)
(* the rank from the first part, the rest from the last two.               *)
TeamRecordOf(parts) ==
  IF Len(parts) < 2 THEN <<>>
  ELSE LET rank == parseInt(stripRankSuffix(parts[1]))
           rest == SubSeq(parts, 2, Len(parts))
       IN IF rank.nan THEN <<>> ELSE teamPush(rank.val, rest, teamResolve(rest))

(* The line cut before its first " vs " or " @ " as written, if any. *)
CutAsWritten(line) == IF HasMatchup(Chars(line)) THEN BeforeMatchup(line) ELSE line

(* The line cut before the first " vs " or " @ " that it holds once its    *)
(* tabs are read as spaces, if any.                                        *)
CutAfterTabs(line) ==
  IF HasMatchup(replaceTabs(Chars(line))) THEN BeforeTabbedMatchup(line) ELSE line

(* The line holds a "vs" or "@" set off by a tab, and none set off by      *)
(* spaces alone.                                                           *)
OnlyTabbedMatchup(line) ==
  HasMatchup(replaceTabs(Chars(line))) /\ ~HasMatchup(Chars(line))

(***************************************************************************)
(* C11 as claimed: the team-aware version strips the matchup from the line *)
(* as written and replaces tabs afterwards: what a line yields is resolved *)
(* from the words of the line before its first literal " vs " or " @ ", so *)
(* that a line whose only "vs" or "@" is set off by tabs is resolved from  *)
(* all its words.                                                          *)
(* Violated: the code replaces the tabs first (line 143) and strips next   *)
(* (line 144); "1 Al QB<tab>vs<tab>Al" is cut before the tab and yields    *)
(* Al, QB, where all its words yield nothing.                              *)
(***************************************************************************)
C11_StrippingBeforeTabsAsClaimed ==
  [][(Iterating /\ variant = "team")
       => players' = players \o TeamRecordOf(Words(CutAsWritten(lines[i])))]_vars

(***************************************************************************)
(* C11, amended: the team-aware version replaces tabs by spaces and strips *)
(* the matchup afterwards: what a line yields is resolved from the words   *)
(* before the first " vs " or " @ " of the line with its tabs read as      *)
(* spaces, so that a "vs" or "@" set off by tabs truncates the line, and   *)
(* no record takes its position from a word at or after it.                *)
(***************************************************************************)
C11_TabsBeforeStripping ==
  [][(Iterating /\ variant = "team") =>
       /\ players' = players \o TeamRecordOf(Words(CutAfterTabs(lines[i])))
       /\ (Pushing /\ OnlyTabbedMatchup(lines[i])) =>
            /\ Len(Words(CutAfterTabs(lines[i]))) < Len(Words(lines[i]))
            /\ PositionIndex("team", PartsOf("team", lines[i]))
                 <= Len(Words(CutAfterTabs(lines[i])))]_vars

(* The team-aware loop has handled a line whose only "vs" is set off by    *)
(* tabs: a record was pushed from the words before it, where all the words *)
(* of the line yield none.                                                 *)
C11_Witness ==
  /\ pc = "loop"
  /\ variant = "team"
  /\ i = 2
  /\ OnlyTabbedMatchup(lines[1])
  /\ Len(players) = 1
  /\ players = TeamRecordOf(Words(CutAfterTabs(lines[1])))
  /\ TeamRecordOf(Words(lines[1])) = <<>>

(***************************************************************************)
(* Vocabulary of the basic version's scan.                                 *)
(***************************************************************************)

(* The indices in parts, after the rank, of the position tokens. *)
PositionHits(parts) == {k \in 2..Len(parts) : IsPositionToken(parts[k])}

(* The right-most of them. *)
RightMostHit(parts) ==
  CHOOSE k \in PositionHits(parts) : \A j \in PositionHits(parts) : j <= k

(* The parts from the a-th to the b-th, joined by single spaces. *)
Joined(parts, a, b) == Glue([k \in 1..(b - a + 1) |-> Str(parts[a + k - 1])], " ")

(***************************************************************************)
(* C12: in the basic version, a record pushed takes its position and       *)
(* positionalRank from the right-most part after the rank that is a        *)
(* position token, and its name from all the parts between the rank and    *)
(* that part; it is the record of the line that ends at that part, the     *)
(* parts after it having no effect; its team is not set; and a line none   *)
(* of whose parts after the rank is a position token pushes no record.     *)
(***************************************************************************)
C12_BasicRightMostPosition ==
  [][(Iterating /\ variant = "basic") =>
       LET parts == basicParts(Chars(lines[i]))
       IN /\ Pushing =>
               /\ PositionHits(parts) # {}
               /\ LET p == RightMostHit(parts)
                  IN /\ Pushed.position = extractPositionAndRank(parts[p]).base
                     /\ Pushed.positionalRank = extractPositionAndRank(parts[p]).rank
                     /\ Pushed.name = Joined(parts, 2, p - 1)
                     /\ <<Pushed>> = basicResolve(Pushed.rank, SubSeq(parts, 2, p))
               /\ Pushed.team = <<>>
          /\ PositionHits(parts) = {} => players' = players]_vars

(* The basic loop has pushed a record for a line with two position tokens  *)
(* and a part after the second: the position is the second one's, the name *)
(* holds the first, and the last part is in neither.                       *)
C12_Witness ==
  /\ pc = "loop"
  /\ variant = "basic"
  /\ i = 2
  /\ Len(players) = 1
  /\ LET parts == basicParts(Chars(lines[1]))
         p == RightMostHit(parts)
     IN /\ Cardinality(PositionHits(parts)) = 2
        /\ p < Len(parts)
        /\ \E k \in PositionHits(parts) :
             /\ k < p
             /\ extractPositionAndRank(parts[k]).base # players[1].position
        /\ players[1].name = Joined(parts, 2, p - 1)
        /\ players[1].team = <<>>

(***************************************************************************)
(* C13: starting from no teams and no active teams, after any sequence of  *)
(* handleCreateTeam, handleDeleteTeam and handleToggleTeam (the last two   *)
(* on a team listed), every name in activeTeamNames is the name of a team  *)
(* in teams.                                                               *)
(***************************************************************************)
C13_ActiveTeamsAreSaved ==
  \A k \in DOMAIN activeTeamNames :
    \E j \in DOMAIN teams : teams[j].name = activeTeamNames[k]

(* One team is left, and it is active; its color is the second of          *)
(* TEAM_COLORS, so that it was created second and the team created first   *)
(* has been deleted since; it holds both players, in sorted order.         *)
C13_Witness ==
  /\ Len(teams) = 1
  /\ teams[1].color = TEAM_COLORS[2]
  /\ teams[1].players = <<"Al", "Bo Jo">>
  /\ activeTeamNames = <<teams[1].name>>

(***************************************************************************)
(* Vocabulary of handleSubmitRankings.                                     *)
(***************************************************************************)

(* A call of handleSubmitRankings is under way. *)
Submitting == pc # "idle"

(* The step is the last of a call of handleSubmitRankings. *)
Finishing == Submitting /\ pc' = "idle"

====
